---- MODULE Spec2Model ----
(***************************************************************************)
(* Array coercion of NumPy (array_coercion.c): the registry of Python      *)
(* scalar types, and the discovery of the shape and descriptor of a nested *)
(* input, with its coercion cache.  The recursion of                       *)
(* PyArray_DiscoverDTypeAndShape_Recursive is unfolded into one step per   *)
(* node visited and one step per return to the calling loop.               *)
(*                                                                         *)
(* Memory allocation is taken to succeed (PyArray_malloc, PyDict_New,      *)
(* PyWeakref_NewRef, PyArray_IterNew), and the import of                   *)
(* numpy.VisibleDeprecationWarning to succeed.                             *)
(***************************************************************************)
EXTENDS Integers, Sequences, FiniteSets, TLC

\* ------------------------------------------------------------------ bounds
MaxLen == 2          \* longest list of the inputs
MaxDimsArg == 4      \* largest max_dims handed to the top-level call
MaxRegistrations == 2
MaxChain == 3 \* registrations made on top of the built-in ones

\* --------------------------------------------------------------- constants
NULL == "NULL"
Py_None == "None"
Py_NotImplemented == "NotImplemented"
ERR == "error"       \* a C function returned NULL with an exception set

IS_RAGGED_ARRAY == "IS_RAGGED_ARRAY"
REACHED_MAXDIMS == "REACHED_MAXDIMS"
GAVE_SUBCLASS_WARNING == "GAVE_SUBCLASS_WARNING"
PROMOTION_FAILED == "PROMOTION_FAILED"
DISCOVER_STRINGS_AS_SEQUENCES == "DISCOVER_STRINGS_AS_SEQUENCES"
DISCOVER_TUPLES_AS_ELEMENTS == "DISCOVER_TUPLES_AS_ELEMENTS"

\* The exceptions the code sets.
RaggedError == "ValueError: setting an array element with a sequence"
DuplicateError == "RuntimeError: Can only map one python type to DType."
NotGenericError == "RuntimeError: only for scalars deriving from np.generic"
BadDTypeError == "RuntimeError: DType was unable to handle its own scalar type"
UnrepresentableError == "TypeError: unable to represent the object using the DType"
CastNotImplementedError == "NotImplementedError: must use casting to find the dtype"
ArrayLikeError == "error raised by the array-like protocol"
SequenceError == "error raised while reading the sequence"
WarningError == "VisibleDeprecationWarning raised as an error"
NoError == "none"

\* ------------------------------------------------------- element-type classes
\* The DType classes of the model.  UserDT is a class a plugin defines; Unit is a
\* parametric class that is not a legacy one.
DTypes == {"Int64", "Float64", "Object", "Str", "Datetime", "Void", "UserDT", "Unit"}

\* The Python types of the model; the keys of the registry are Python objects,
\* and a DType class is one too.
PyTypes ==
    {"list", "tuple", "ndarray", "int", "float", "str", "datetime64", "void",
     "object", "userscalar", "quantity", "plain", "NoneType", "floatsub",
     "arraylike", "mapping", "badseq"}
PyObjects == PyTypes \cup DTypes

\* PyObject_IsSubclass(pytype, &PyGenericArrType_Type)
IsGenericSubclass(pytype) == pytype \in {"datetime64", "void", "userscalar"}

parametric(D) == D \in {"Str", "Datetime", "Void", "Unit"}
legacy(D) == D \in {"Int64", "Float64", "Object", "Str", "Datetime", "Void"}
scalar_type(D) ==
    CASE D = "Int64" -> "int"
      [] D = "Float64" -> "float"
      [] D = "Object" -> "object"
      [] D = "Str" -> "str"
      [] D = "Datetime" -> "datetime64"
      [] D = "Void" -> "void"
      [] D = "UserDT" -> "userscalar"
      [] D = "Unit" -> "quantity"

\* NPY_DTYPE(descr): the class of an instance.
NPY_DTYPE(descr) ==
    CASE descr = "i8" -> "Int64"
      [] descr = "f8" -> "Float64"
      [] descr = "O" -> "Object"
      [] descr \in {"U1", "U2", "U21", "c"} -> "Str"
      [] descr = "M8" -> "Datetime"
      [] descr = "V" -> "Void"
      [] descr = "user" -> "UserDT"
      [] descr = "unit" -> "Unit"

Descrs == {"i8", "f8", "O", "U1", "U2", "U21", "c", "M8", "V", "user", "unit"}

\* DType->default_descr(DType), or DType->singleton where the slot is NULL.
default_descr(D) ==
    CASE D = "Int64" -> "i8"
      [] D = "Float64" -> "f8"
      [] D = "Object" -> "O"
      [] D = "Str" -> "U1"
      [] D = "Datetime" -> "M8"
      [] D = "Void" -> "V"
      [] D = "UserDT" -> "user"
      [] D = "Unit" -> "unit"

\* NPY_DEFAULT_TYPE is the double.
DefaultDescr == "f8"

\* -------------------------------------------------------------------- inputs
\* A Python object handed to the discovery: its type, what it is to the C API
\* (kind), and for a string its length, for an array its shape and descriptor,
\* for a list, a tuple or an object array its items.
Node(k, t, n, sh, d, it) ==
    [kind |-> k, pytype |-> t, size |-> n, shape |-> sh, descr |-> d, items |-> it]

Scalar(t) == Node("scalar", t, 0, <<>>, NULL, <<>>)
StrObj(n) == Node("scalar", "str", n, <<>>, NULL, <<>>)
Array(sh, d) == Node("array", "ndarray", 0, sh, d, <<>>)
ObjArray(it) == Node("array", "ndarray", 0, <<Len(it)>>, "O", it)
List(it) == Node("seq", "list", Len(it), <<>>, NULL, it)
Tuple(it) == Node("seq", "tuple", Len(it), <<>>, NULL, it)
\* An object whose __array__ (or buffer, or array interface) raises.
BadArrayLike == Node("arraylike_error", "arraylike", 0, <<>>, NULL, <<>>)
\* An object with __len__ and __getitem__ whose iteration raises KeyError (a
\* mapping), or another error.
DictLike == Node("seq_keyerror", "mapping", 1, <<>>, NULL, <<>>)
BadSequence == Node("seq_error", "badseq", 1, <<>>, NULL, <<>>)

\* A list whose only item is the list itself: the item stands for the list.
Itself == Node("itself", "list", 1, <<>>, NULL, <<>>)
SelfList == List(<<Itself>>)

PyInt == Scalar("int")
PyFloat == Scalar("float")
PyNone == Scalar("NoneType")
PyFloatSubclass == Scalar("floatsub")
Datetime64 == Scalar("datetime64")
\* A scalar of the user class Unit that carries no unit (size 0): the class
\* cannot tell a descriptor for it.
BareQuantity == Scalar("quantity")

\* The leaves that occur at every level, and those that occur only as the input
\* or as an item of the input.
InnerLeaves == {PyInt, PyFloat, BadArrayLike}
OuterLeaves ==
    {PyNone, PyFloatSubclass, Datetime64, StrObj(2), DictLike, BadSequence,
     Array(<<2>>, "i8"),
     Tuple(<<>>), Tuple(<<PyInt>>), Array(<<>>, "f8"), Array(<<1, 1, 1>>, "i8"),
     Array(<<1, 1, 2>>, "i8"), Array(<<1, 2>>, "f8"), ObjArray(<<PyInt, StrObj(2)>>),
     ObjArray(<<Datetime64>>), SelfList, BareQuantity}

ListsOver(S) == {List(it) : it \in UNION {[1..n -> S] : n \in 0..MaxLen}}

InnerLists == ListsOver(InnerLeaves)
Items == InnerLeaves \cup OuterLeaves \cup InnerLists
Inputs == Items \cup ListsOver(Items)

\* PySequence_Fast_ITEMS of a node read as a sequence: the items of a list or a
\* tuple, the characters of a string.
SeqItems(n) ==
    IF n.pytype = "str" THEN [j \in 1..n.size |-> StrObj(1)]
    ELSE [j \in 1..Len(n.items) |-> IF n.items[j].kind = "itself" THEN n ELSE n.items[j]]

\* The object at a path of item indices (1-based) below n.
RECURSIVE Sub(_, _)
Sub(n, p) == IF p = <<>> THEN n ELSE Sub(SeqItems(n)[Head(p)], Tail(p))

\* ------------------------------------------------------------ class slots
\* DType->is_known_scalar: the legacy classes accept the exact built-in Python
\* scalar types; UserDT leaves the slot NULL; Unit accepts a tuple (a value and
\* its unit) as one of its scalars.
is_known_scalar(D, obj) ==
    \/ legacy(D) /\ obj.pytype \in {"int", "float", "str"}
    \/ D = "Unit" /\ obj.pytype = "tuple"

\* DType->discover_descr_from_pyobject(DType, obj): a non-parametric class gives
\* its default instance; Str sizes the instance from the value; Datetime reads
\* its own scalars and date strings; a user parametric class knows only the
\* scalars of its own type, and the tuples, that carry a unit.
discover_descr_from_pyobject(D, obj) ==
    CASE ~parametric(D) -> default_descr(D)
      [] D = "Str" ->
            IF obj.pytype = "str"
            THEN (IF obj.size <= 1 THEN "U1" ELSE "U2")
            ELSE "U21"
      [] D = "Datetime" ->
            IF obj.pytype \in {"datetime64", "str"} THEN "M8" ELSE Py_NotImplemented
      [] D = "Void" -> "V"
      [] D = "Unit" ->
            IF obj.pytype \in {"quantity", "tuple"} /\ obj.size >= 1
            THEN "unit"
            ELSE Py_NotImplemented

\* PyArray_PromoteTypes(a, b): NULL when the two have no common type.
PyArray_PromoteTypes(a, b) ==
    LET U == {"U1", "U2", "U21", "c"}
        rank(d) == CASE d = "U1" -> 1 [] d = "c" -> 1 [] d = "U2" -> 2 [] d = "U21" -> 3
    IN  CASE a = b -> a
          [] a = "O" \/ b = "O" -> "O"
          [] {a, b} = {"i8", "f8"} -> "f8"
          [] a \in U /\ b \in U -> (IF rank(a) >= rank(b) THEN a ELSE b)
          [] (a \in U /\ b \in {"i8", "f8", "M8"}) \/ (b \in U /\ a \in {"i8", "f8", "M8"}) -> "U21"
          [] OTHER -> NULL

\* PyArray_AdaptFlexibleDType(NULL, descr, flex_dtype) for a legacy flexible class.
PyArray_AdaptFlexibleDType(descr, D) ==
    IF D = "Str" THEN "U21" ELSE default_descr(D)

\* _array_find_python_scalar_type, PyArray_DescrFromScalar and the bytes and
\* unicode checks of the legacy path: the descriptor of an object whose type is
\* not registered, NULL if it is no scalar.
legacy_descr(obj) ==
    CASE obj.pytype = "floatsub" -> "f8"
      [] obj.pytype = "userscalar" -> "user"
      [] OTHER -> NULL

\* --------------------------------------------------------------- registry
\* _prime_global_pytype_to_type_dict, and the built-in classes registered when
\* the module is imported.
Absent == "absent"
PrimedDict ==
    [t \in PyObjects |->
        CASE t \in {"list", "tuple", "ndarray"} -> Py_None
          [] t = "int" -> "Int64"
          [] t = "float" -> "Float64"
          [] t = "str" -> "Str"
          [] t = "datetime64" -> "Datetime"
          [] t = "void" -> "Void"
          [] OTHER -> Absent]

\* PyDict_Contains(dict, key)
PyDict_Contains(dict, key) == dict[key] # Absent

\* The key _PyArray_MapPyTypeToDType looks up before it adds the mapping.
DuplicateCheckKey(DType, pytype) == DType

\* _PyArray_MapPyTypeToDType without the test of lines 141-148.
MapPyTypeToDType_unchecked(dict, DType, pytype, userdef) ==
    IF PyDict_Contains(dict, DuplicateCheckKey(DType, pytype))
    THEN [ret |-> -1, err |-> DuplicateError, dict |-> dict]
    ELSE [ret |-> 0, err |-> NoError, dict |-> [dict EXCEPT ![pytype] = DType]]

\* _PyArray_MapPyTypeToDType: the return value, the exception and the dictionary.
MapPyTypeToDType(dict, DType, pytype, userdef) ==
    IF userdef /\ ~IsGenericSubclass(pytype)
    THEN [ret |-> -1, err |-> NotGenericError, dict |-> dict]
    ELSE IF PyDict_Contains(dict, DuplicateCheckKey(DType, pytype))
    THEN [ret |-> -1, err |-> DuplicateError, dict |-> dict]
    ELSE [ret |-> 0, err |-> NoError, dict |-> [dict EXCEPT ![pytype] = DType]]

\* discover_dtype_from_pytype if it left a dead weak reference in the dictionary.
discover_dtype_from_pytype_keeps_stale(dict, dead, pytype) ==
    LET weakref == dict[pytype] IN
    IF weakref = Absent THEN [ret |-> NULL, dict |-> dict]
    ELSE IF weakref = Py_None THEN [ret |-> Py_None, dict |-> dict]
    ELSE [ret |-> IF weakref \in dead THEN Py_None ELSE weakref, dict |-> dict]

\* discover_dtype_from_pytype: the DType class, Py_None for a known non-scalar,
\* NULL for an unknown type; a dead weak reference is deleted from the dictionary.
discover_dtype_from_pytype(dict, dead, pytype) ==
    LET weakref == dict[pytype] IN
    IF weakref = Absent THEN [ret |-> NULL, dict |-> dict]
    ELSE IF weakref = Py_None THEN [ret |-> Py_None, dict |-> dict]
    ELSE LET DType == IF weakref \in dead THEN Py_None ELSE weakref IN
         IF DType = Py_None
         THEN [ret |-> DType, dict |-> [dict EXCEPT ![pytype] = Absent]]
         ELSE [ret |-> DType, dict |-> dict]

\* discover_dtype_from_pyobject if the registry were consulted before the fixed
\* class.
discover_dtype_from_pyobject_registry_first(obj, fixed_DType, dict, dead) ==
    LET found == discover_dtype_from_pytype(dict, dead, obj.pytype) IN
    IF found.ret # NULL THEN found
    ELSE IF fixed_DType # NULL
            /\ (obj.pytype = scalar_type(fixed_DType) \/ is_known_scalar(fixed_DType, obj))
    THEN [ret |-> fixed_DType, dict |-> found.dict]
    ELSE IF legacy_descr(obj) # NULL
    THEN [ret |-> NPY_DTYPE(legacy_descr(obj)), dict |-> found.dict]
    ELSE [ret |-> Py_None, dict |-> found.dict]

\* discover_dtype_from_pyobject: the fixed class first, then the registry, then
\* the legacy discovery.
discover_dtype_from_pyobject(obj, fixed_DType, dict, dead) ==
    IF fixed_DType # NULL
       /\ (obj.pytype = scalar_type(fixed_DType) \/ is_known_scalar(fixed_DType, obj))
    THEN [ret |-> fixed_DType, dict |-> dict]
    ELSE LET found == discover_dtype_from_pytype(dict, dead, obj.pytype) IN
         IF found.ret # NULL THEN found
         ELSE IF legacy_descr(obj) # NULL
         THEN [ret |-> NPY_DTYPE(legacy_descr(obj)), dict |-> found.dict]
         ELSE [ret |-> Py_None, dict |-> found.dict]

\* ------------------------------------------------------------- discovery
Errors ==
    {RaggedError, DuplicateError, NotGenericError, BadDTypeError,
     UnrepresentableError, CastNotImplementedError, ArrayLikeError,
     SequenceError, WarningError}

Min(S) == CHOOSE x \in S : \A y \in S : x <= y

\* cast_descriptor_to_fixed_dtype: the descriptor, or the exception set.
cast_descriptor_to_fixed_dtype(descr, fixed_DType) ==
    IF fixed_DType = NULL THEN descr
    ELSE IF ~parametric(fixed_DType) THEN default_descr(fixed_DType)
    ELSE IF NPY_DTYPE(descr) = fixed_DType THEN descr
    ELSE IF legacy(fixed_DType) /\ parametric(fixed_DType)
    THEN PyArray_AdaptFlexibleDType(descr, fixed_DType)
    ELSE CastNotImplementedError

\* find_scalar_descriptor if NotImplemented from the class of the scalar were
\* answered with the default instance of the class.
find_scalar_descriptor_default(fixed_DType, DType, obj, requested_descr) ==
    LET first == IF fixed_DType # NULL
                 THEN discover_descr_from_pyobject(fixed_DType, obj)
                 ELSE Py_NotImplemented
    IN  IF requested_descr # NULL THEN requested_descr
        ELSE IF fixed_DType # NULL /\ first # Py_NotImplemented THEN first
        ELSE IF fixed_DType # NULL /\ DType = fixed_DType THEN default_descr(DType)
        ELSE IF DType = NULL
        THEN (IF fixed_DType # NULL THEN UnrepresentableError ELSE "O")
        ELSE LET descr == discover_descr_from_pyobject(DType, obj)
                 found == IF descr = Py_NotImplemented THEN default_descr(DType) ELSE descr
             IN  IF fixed_DType = NULL THEN found
                 ELSE cast_descriptor_to_fixed_dtype(found, fixed_DType)

\* find_scalar_descriptor: the descriptor of a scalar, or the exception set.
find_scalar_descriptor(fixed_DType, DType, obj, requested_descr) ==
    LET first == IF fixed_DType # NULL
                 THEN discover_descr_from_pyobject(fixed_DType, obj)
                 ELSE Py_NotImplemented
    IN  IF requested_descr # NULL THEN requested_descr
        ELSE IF fixed_DType # NULL /\ first # Py_NotImplemented THEN first
        ELSE IF fixed_DType # NULL /\ DType = fixed_DType THEN BadDTypeError
        ELSE IF DType = NULL
        THEN (IF fixed_DType # NULL THEN UnrepresentableError ELSE "O")
        ELSE LET descr == discover_descr_from_pyobject(DType, obj) IN
             IF descr = Py_NotImplemented THEN BadDTypeError
             ELSE IF fixed_DType = NULL THEN descr
             ELSE cast_descriptor_to_fixed_dtype(descr, fixed_DType)

\* The dimensions update_shape takes from max_ndim when an array disagrees with
\* the recorded shape at its i-th dimension.
UnusableDims(new_ndim, i) == new_ndim + i

\* update_shape if only a mismatch shrank max_ndim.
update_shape_keeps_max(curr_ndim, max_ndim, out_shape, new_ndim, new_shape, sequence) ==
    LET over == curr_ndim + new_ndim > max_ndim
        ndim1 == IF over THEN max_ndim - curr_ndim ELSE new_ndim
        mismatch == {i \in 0..(ndim1 - 1) :
                        /\ out_shape[curr_ndim + i] # -1
                        /\ new_shape[i + 1] # out_shape[curr_ndim + i]}
        stop == IF mismatch = {} THEN ndim1 ELSE Min(mismatch)
    IN  [success |-> IF mismatch = {} THEN (IF over THEN -1 ELSE 0) ELSE -1,
         max_ndim |-> IF mismatch = {} THEN max_ndim
                      ELSE IF ~sequence THEN max_ndim - UnusableDims(ndim1, stop)
                      ELSE curr_ndim,
         out_shape |-> [j \in DOMAIN out_shape |->
                          IF j >= curr_ndim /\ j < curr_ndim + stop /\ out_shape[j] = -1
                          THEN new_shape[j - curr_ndim + 1]
                          ELSE out_shape[j]]]

\* update_shape if it wrote every dimension of the node, set or not.
update_shape_overwrites(curr_ndim, max_ndim, out_shape, new_ndim, new_shape, sequence) ==
    LET over == curr_ndim + new_ndim > max_ndim
        shrink == ~over /\ ~sequence /\ max_ndim # curr_ndim + new_ndim
        max1 == IF shrink THEN curr_ndim + new_ndim ELSE max_ndim
        ndim1 == IF over THEN max_ndim - curr_ndim ELSE new_ndim
        success1 == IF over THEN -1
                    ELSE IF shrink /\ out_shape[max1] >= 0 THEN -1 ELSE 0
        mismatch == {i \in 0..(ndim1 - 1) :
                        /\ out_shape[curr_ndim + i] # -1
                        /\ new_shape[i + 1] # out_shape[curr_ndim + i]}
        stop == IF mismatch = {} THEN ndim1 ELSE Min(mismatch)
    IN  [success |-> IF mismatch = {} THEN success1 ELSE -1,
         max_ndim |-> IF mismatch = {} THEN max1
                      ELSE IF ~sequence THEN max1 - UnusableDims(ndim1, stop)
                      ELSE curr_ndim,
         out_shape |-> [j \in DOMAIN out_shape |->
                          IF j >= curr_ndim /\ j < curr_ndim + ndim1
                          THEN new_shape[j - curr_ndim + 1]
                          ELSE out_shape[j]]]

\* update_shape if it compared the dimensions but did not write them.
update_shape_no_record(curr_ndim, max_ndim, out_shape, new_ndim, new_shape, sequence) ==
    LET over == curr_ndim + new_ndim > max_ndim
        shrink == ~over /\ ~sequence /\ max_ndim # curr_ndim + new_ndim
        max1 == IF shrink THEN curr_ndim + new_ndim ELSE max_ndim
        ndim1 == IF over THEN max_ndim - curr_ndim ELSE new_ndim
        success1 == IF over THEN -1
                    ELSE IF shrink /\ out_shape[max1] >= 0 THEN -1 ELSE 0
        mismatch == {i \in 0..(ndim1 - 1) :
                        /\ out_shape[curr_ndim + i] # -1
                        /\ new_shape[i + 1] # out_shape[curr_ndim + i]}
        stop == IF mismatch = {} THEN ndim1 ELSE Min(mismatch)
    IN  [success |-> IF mismatch = {} THEN success1 ELSE -1,
         max_ndim |-> IF mismatch = {} THEN max1
                      ELSE IF ~sequence THEN max1 - UnusableDims(ndim1, stop)
                      ELSE curr_ndim,
         out_shape |-> out_shape]

\* update_shape: success (0, or -1 if ragged), max_ndim and out_shape after it.
\* out_shape is indexed from 0 and new_shape from 1.
update_shape(curr_ndim, max_ndim, out_shape, new_ndim, new_shape, sequence) ==
    LET over == curr_ndim + new_ndim > max_ndim
        shrink == ~over /\ ~sequence /\ max_ndim # curr_ndim + new_ndim
        max1 == IF shrink THEN curr_ndim + new_ndim ELSE max_ndim
        ndim1 == IF over THEN max_ndim - curr_ndim ELSE new_ndim
        success1 == IF over THEN -1
                    ELSE IF shrink /\ out_shape[max1] >= 0 THEN -1 ELSE 0
        mismatch == {i \in 0..(ndim1 - 1) :
                        /\ out_shape[curr_ndim + i] # -1
                        /\ new_shape[i + 1] # out_shape[curr_ndim + i]}
        stop == IF mismatch = {} THEN ndim1 ELSE Min(mismatch)
    IN  [success |-> IF mismatch = {} THEN success1 ELSE -1,
         max_ndim |-> IF mismatch = {} THEN max1
                      ELSE IF ~sequence THEN max1 - UnusableDims(ndim1, stop)
                      ELSE curr_ndim,
         out_shape |-> [j \in DOMAIN out_shape |->
                          IF j >= curr_ndim /\ j < curr_ndim + stop /\ out_shape[j] = -1
                          THEN new_shape[j - curr_ndim + 1]
                          ELSE out_shape[j]]]

\* handle_promotion if it kept the first descriptor and promoted nothing.
handle_promotion_first(outd, descr, requested_descr, fl) ==
    IF requested_descr # NULL THEN [out_descr |-> outd, flags |-> fl]
    ELSE IF outd = NULL THEN [out_descr |-> descr, flags |-> fl]
    ELSE [out_descr |-> outd, flags |-> fl]

\* handle_promotion if a failed promotion kept the running descriptor.
handle_promotion_keeps_descr(outd, descr, requested_descr, fl) ==
    IF requested_descr # NULL THEN [out_descr |-> outd, flags |-> fl]
    ELSE IF outd = NULL THEN [out_descr |-> descr, flags |-> fl]
    ELSE LET new_descr == PyArray_PromoteTypes(outd, descr) IN
         IF new_descr = NULL
         THEN [out_descr |-> outd, flags |-> fl \cup {PROMOTION_FAILED}]
         ELSE [out_descr |-> new_descr, flags |-> fl]

\* handle_promotion: out_descr and the flags after it.
handle_promotion(outd, descr, requested_descr, fl) ==
    IF requested_descr # NULL THEN [out_descr |-> outd, flags |-> fl]
    ELSE IF outd = NULL THEN [out_descr |-> descr, flags |-> fl]
    ELSE LET new_descr == PyArray_PromoteTypes(outd, descr) IN
         IF new_descr = NULL
         THEN [out_descr |-> "O", flags |-> fl \cup {PROMOTION_FAILED}]
         ELSE [out_descr |-> new_descr, flags |-> fl]

\* handle_scalar that returns the max_dims it was given instead of the one
\* update_shape left.
handle_scalar_keeps_max(o, curr_dims, maxd, outd, shape, fixed_DType, requested_descr, fl, DType) ==
    LET descr == find_scalar_descriptor(fixed_DType, DType, o, requested_descr)
        us == update_shape(curr_dims, maxd, shape, 0, <<>>, FALSE)
        hp == handle_promotion(outd, descr, requested_descr, fl)
    IN  IF descr \in Errors
        THEN [ret |-> -1, out_descr |-> outd, out_shape |-> shape, flags |-> fl,
              err |-> descr]
        ELSE IF us.success < 0
        THEN [ret |-> maxd, out_descr |-> "O", out_shape |-> us.out_shape,
              flags |-> fl \cup {IS_RAGGED_ARRAY}, err |-> NoError]
        ELSE [ret |-> maxd, out_descr |-> hp.out_descr,
              out_shape |-> us.out_shape, flags |-> hp.flags, err |-> NoError]

\* handle_scalar: the value returned (*max_dims, or -1), with out_descr,
\* out_shape and the flags after it, and the exception set if any.
handle_scalar(o, curr_dims, maxd, outd, shape, fixed_DType, requested_descr, fl, DType) ==
    LET descr == find_scalar_descriptor(fixed_DType, DType, o, requested_descr)
        us == update_shape(curr_dims, maxd, shape, 0, <<>>, FALSE)
        hp == handle_promotion(outd, descr, requested_descr, fl)
    IN  IF descr \in Errors
        THEN [ret |-> -1, out_descr |-> outd, out_shape |-> shape, flags |-> fl,
              err |-> descr]
        ELSE IF us.success < 0
        THEN [ret |-> us.max_ndim, out_descr |-> "O", out_shape |-> us.out_shape,
              flags |-> fl \cup {IS_RAGGED_ARRAY}, err |-> NoError]
        ELSE [ret |-> us.max_ndim, out_descr |-> hp.out_descr,
              out_shape |-> us.out_shape, flags |-> hp.flags, err |-> NoError]

\* ------------------------------------------------------------ coercion cache
\* The list is a sequence of entries linked by next (0 is NULL); a pointer to a
\* list pointer is 0 for the caller's head and k for the next field of entry k.
\* npy_new_coercion_cache_at_head is the function if it linked the new entry in
\* front of the list.
npy_new_coercion_cache_at_head(c, head, next_ptr, converted_obj, sequence) ==
    LET n == Len(c) + 1
        entry == [converted_obj |-> converted_obj, sequence |-> sequence,
                  next |-> head, freed |-> FALSE]
    IN  [cache |-> Append(c, entry), head |-> n, next_ptr |-> next_ptr]

npy_new_coercion_cache(c, head, next_ptr, converted_obj, sequence) ==
    LET n == Len(c) + 1
        entry == [converted_obj |-> converted_obj, sequence |-> sequence,
                  next |-> 0, freed |-> FALSE]
        linked == IF next_ptr = 0 THEN c ELSE [c EXCEPT ![next_ptr].next = n]
    IN  [cache |-> Append(linked, entry),
         head |-> IF next_ptr = 0 THEN n ELSE head,
         next_ptr |-> n]

\* npy_free_coercion_cache(next): every entry from next on is released.
RECURSIVE npy_free_coercion_cache(_, _)
npy_free_coercion_cache(c, next) ==
    IF next = 0 THEN c
    ELSE npy_free_coercion_cache([c EXCEPT ![next].freed = TRUE], c[next].next)

\* What a pointer to a list pointer points at.
Deref(c, head, ptr) == IF ptr = 0 THEN head ELSE c[ptr].next

\* The pointer the fail path of PyArray_DiscoverDTypeAndShape frees from and
\* clears: its parameter coercion_cache, which the recursion has advanced.
FailCleanupPtr(tail) == tail

\* ------------------------------------------------------------------- state
VARIABLES
    dict,             \* _global_pytype_to_type_dict: Python object -> class, Py_None or Absent
    dead,             \* the classes that have been collected (their weak references are dead)
    nreg,             \* calls of _PyArray_MapPyTypeToDType made after the import
    reg,              \* the last such call: its arguments, return value and exception
    nep,              \* the call of common_dtype or the cast being resolved (NEP 42)
    lookup,           \* the last discover_dtype_from_pytype: its argument and result
    pc,               \* idle | visit | return | finish | done
    obj,              \* the arguments of PyArray_DiscoverDTypeAndShape ...
    max_dims,
    fixed_DType,
    requested_descr,
    out_shape,        \* ... and its outputs
    out_descr,
    flags,            \* enum _dtype_discovery_flags, as a set
    cache,            \* the coercion cache entries allocated by the call
    cache_head,       \* *coercion_cache of the caller: 0 (NULL) or an entry
    tail_ptr,         \* the parameter coercion_cache, advanced through &coercion_cache
    stack,            \* the sequences whose items are being visited: path and index
    cur,              \* the path of the node the next recursive call visits
    cur_max,          \* max_dims of that call
    ret,              \* the value the last call returned
    err,              \* the exception set
    warned            \* deprecation diagnostics given by the call

regvars == <<dict, dead, nreg, reg, lookup, nep>>
args == <<obj, max_dims, fixed_DType, requested_descr>>
outs == <<out_shape, out_descr, flags>>
cachevars == <<cache, cache_head, tail_ptr>>
ctl == <<pc, stack, cur, cur_max, ret, err, warned>>
vars == <<regvars, args, outs, cachevars, ctl>>

\* The class or instance the caller fixes: requested_descr implies its class;
\* "c" is the character variant of the string, "V" a structured void.
Requests ==
    {<<NULL, NULL>>, <<"Object", NULL>>, <<"Object", "O">>, <<"Float64", NULL>>,
     <<"Float64", "f8">>, <<"Str", NULL>>, <<"Str", "c">>, <<"Void", "V">>,
     <<"Unit", NULL>>}

NoCall == [op |-> "none", DType |-> NULL, pytype |-> NULL, userdef |-> FALSE,
           ret |-> 0, err |-> NoError]
\* No call of common_dtype and no cast is under way.
NoPromotion ==
    [op |-> "none", DType1 |-> NULL, DType2 |-> NULL, asked |-> <<>>,
     answers |-> <<>>, result |-> NULL, at |-> "idle"]
NoLookup == [pytype |-> NULL, ret |-> NULL]

Init ==
    /\ dict = PrimedDict
    /\ dead = {}
    /\ nreg = 0
    /\ reg = NoCall
    /\ lookup = NoLookup
    /\ nep = NoPromotion
    /\ pc = "idle"
    /\ obj = PyNone
    /\ max_dims = 0
    /\ fixed_DType = NULL
    /\ requested_descr = NULL
    /\ out_shape = <<>>
    /\ out_descr = NULL
    /\ flags = {}
    /\ cache = <<>>
    /\ cache_head = 0
    /\ tail_ptr = 0
    /\ stack = <<>>
    /\ cur = <<>>
    /\ cur_max = 0
    /\ ret = 0
    /\ err = NoError
    /\ warned = 0

\* ------------------------------------------------------- registry operations
RegDTypes == {"UserDT", "Unit"}
RegPyTypes == {"userscalar", "quantity", "int"}

\* _PyArray_MapPyTypeToDType(DType, pytype, userdef)
RegisterDType(DType, pytype, userdef) ==
    /\ pc = "idle"
    /\ nreg < MaxRegistrations
    /\ DType \notin dead
    /\ LET r == MapPyTypeToDType(dict, DType, pytype, userdef) IN
        /\ dict' = r.dict
        /\ reg' = [op |-> "map", DType |-> DType, pytype |-> pytype,
                   userdef |-> userdef, ret |-> r.ret, err |-> r.err]
    /\ nreg' = nreg + 1
    /\ UNCHANGED <<dead, lookup, nep, args, outs, cachevars, ctl>>

\* The last strong reference to a class defined at run time goes away.
CollectDType(DType) ==
    /\ pc = "idle"
    /\ DType \notin dead
    /\ dead' = dead \cup {DType}
    /\ UNCHANGED <<dict, nreg, reg, lookup, nep, args, outs, cachevars, ctl>>

\* discover_dtype_from_pytype(pytype), as PyArray_ExtractDTypeAndDescriptor calls it.
LookupPyType(pytype) ==
    /\ pc = "idle"
    /\ LET r == discover_dtype_from_pytype(dict, dead, pytype) IN
        /\ dict' = r.dict
        /\ lookup' = [pytype |-> pytype, ret |-> r.ret]
    /\ UNCHANGED <<dead, nreg, reg, nep, args, outs, cachevars, ctl>>

\* ------------------------------------------------------ the top-level call
\* PyArray_DiscoverDTypeAndShape, up to the call of the recursive function.
Discover(o, md, request) ==
    /\ pc = "idle"
    /\ obj' = o
    /\ max_dims' = md
    /\ fixed_DType' = request[1]
    /\ requested_descr' = request[2]
    /\ out_descr' = NULL
    /\ cache_head' = 0
    /\ out_shape' = [i \in 0..(md - 1) |-> -1]
    /\ flags' = IF request[2] = "c" THEN {DISCOVER_STRINGS_AS_SEQUENCES}
                ELSE IF request[2] = "V" THEN {DISCOVER_TUPLES_AS_ELEMENTS}
                ELSE {}
    /\ cache' = <<>>
    /\ tail_ptr' = 0
    /\ stack' = <<>>
    /\ cur' = <<>>
    /\ cur_max' = md
    /\ ret' = 0
    /\ err' = NoError
    /\ warned' = 0
    /\ pc' = "visit"
    /\ UNCHANGED regvars

\* ------------------------------------------------- the recursive function
\* The arguments of the call of PyArray_DiscoverDTypeAndShape_Recursive that is
\* about to run.
node == Sub(obj, cur)
curr_dims == Len(cur)

\* The string that the character dtype makes a sequence.
Forced ==
    /\ DISCOVER_STRINGS_AS_SEQUENCES \in flags
    /\ node.pytype = "str"
    /\ node.size # 1

Found == discover_dtype_from_pyobject(node, fixed_DType, dict, dead)

\* PySequence_Check(obj) && PySequence_Size(obj) >= 0, unless a tuple is an element.
is_sequence ==
    /\ node.kind \in {"seq", "seq_keyerror", "seq_error"} \/ node.pytype = "str"
    /\ ~(DISCOVER_TUPLES_AS_ELEMENTS \in flags /\ node.pytype = "tuple")

\* The branches without the test of the depth at lines 752-753: a sequence at
\* the maximum depth is read as a sequence.
BranchDescending ==
    IF Forced THEN "sequence"
    ELSE IF Found.ret # Py_None THEN "scalar"
    ELSE IF node.kind = "array" THEN "array"
    ELSE IF node.kind = "arraylike_error" THEN "arraylike_error"
    ELSE IF ~is_sequence THEN "leaf"
    ELSE IF node.kind = "seq_keyerror" THEN "mapping"
    ELSE IF node.kind = "seq_error" THEN "seq_error"
    ELSE "sequence"

\* The part of the function that handles the node.
Branch ==
    IF Forced THEN "sequence"
    ELSE IF Found.ret # Py_None THEN "scalar"
    ELSE IF node.kind = "array" THEN "array"
    ELSE IF node.kind = "arraylike_error" THEN "arraylike_error"
    ELSE IF curr_dims = cur_max \/ ~is_sequence THEN "leaf"
    ELSE IF node.kind = "seq_keyerror" THEN "mapping"
    ELSE IF node.kind = "seq_error" THEN "seq_error"
    ELSE "sequence"

\* The call returns what handle_scalar returned.
ReturnScalar(hs, more_flags) ==
    /\ out_descr' = hs.out_descr
    /\ out_shape' = hs.out_shape
    /\ flags' = hs.flags \cup more_flags
    /\ ret' = hs.ret
    /\ err' = hs.err
    /\ pc' = "return"
    /\ UNCHANGED <<dead, nreg, reg, lookup, nep, args, cachevars, stack, cur, cur_max, warned>>

\* A known scalar: lines 641-651.
VisitScalar ==
    /\ pc = "visit"
    /\ Branch = "scalar"
    /\ dict' = Found.dict
    /\ ReturnScalar(handle_scalar(node, curr_dims, cur_max, out_descr, out_shape,
                                  fixed_DType, requested_descr, flags, Found.ret), {})

\* No sequence, or the dimension limit is reached: lines 754-770.
VisitLeaf ==
    /\ pc = "visit"
    /\ Branch = "leaf"
    /\ dict' = Found.dict
    /\ ReturnScalar(handle_scalar(node, curr_dims, cur_max, out_descr, out_shape,
                                  fixed_DType, requested_descr, flags, NULL),
                    IF is_sequence THEN {REACHED_MAXDIMS} ELSE {})

\* PySequence_Fast fails with a KeyError: lines 777-789.
VisitMapping ==
    /\ pc = "visit"
    /\ Branch = "mapping"
    /\ dict' = Found.dict
    /\ ReturnScalar(handle_scalar(node, curr_dims, cur_max, out_descr, out_shape,
                                  fixed_DType, requested_descr, flags, NULL), {})

\* The call returns -1 with an exception set.
ReturnError(e) ==
    /\ ret' = -1
    /\ err' = e
    /\ pc' = "return"

\* PySequence_Fast fails with another error: line 790.
VisitBadSequence ==
    /\ pc = "visit"
    /\ Branch = "seq_error"
    /\ dict' = Found.dict
    /\ ReturnError(SequenceError)
    /\ UNCHANGED <<dead, nreg, reg, lookup, nep, args, outs, cachevars, stack, cur, cur_max, warned>>

\* _array_from_array_like fails: lines 664-668.
VisitBadArrayLike ==
    /\ pc = "visit"
    /\ Branch = "arraylike_error"
    /\ dict' = Found.dict
    /\ ReturnError(ArrayLikeError)
    /\ UNCHANGED <<dead, nreg, reg, lookup, nep, args, outs, cachevars, stack, cur, cur_max, warned>>

\* The elements of an object array under a parametric fixed class, lines
\* 703-728: each is handed to handle_scalar with the class found for it in the
\* place of fixed_DType and the fixed class in the place of DType.
RECURSIVE InspectElements(_, _, _, _, _)
InspectElements(elems, k, outd, fl, d) ==
    IF k > Len(elems) THEN [out_descr |-> outd, flags |-> fl, dict |-> d, err |-> NoError]
    ELSE LET f == discover_dtype_from_pyobject(elems[k], fixed_DType, d, dead)
             DType == IF f.ret = Py_None THEN NULL ELSE f.ret
             hs == handle_scalar(elems[k], 0, 0, outd, <<>>, DType, NULL, fl, fixed_DType)
         IN  IF hs.ret < 0
             THEN [out_descr |-> hs.out_descr, flags |-> hs.flags, dict |-> f.dict,
                   err |-> hs.err]
             ELSE InspectElements(elems, k + 1, hs.out_descr, hs.flags, f.dict)

\* An array: lines 659-747.
VisitArray ==
    /\ pc = "visit"
    /\ Branch = "array"
    /\ LET nc == npy_new_coercion_cache(cache, cache_head, tail_ptr, cur, FALSE)
           us == update_shape(curr_dims, cur_max, out_shape,
                              Len(node.shape), node.shape, FALSE)
           ie == InspectElements(node.items, 1, out_descr, flags, Found.dict)
           descr == cast_descriptor_to_fixed_dtype(node.descr, fixed_DType)
           hp == handle_promotion(out_descr, descr, requested_descr, flags)
       IN  /\ cache' = nc.cache
           /\ cache_head' = nc.head
           /\ tail_ptr' = nc.next_ptr
           /\ out_shape' = us.out_shape
           /\ pc' = "return"
           /\ IF us.success < 0
              THEN /\ flags' = flags \cup {IS_RAGGED_ARRAY}
                   /\ ret' = us.max_ndim
                   /\ dict' = Found.dict
                   /\ UNCHANGED <<out_descr, err>>
              ELSE IF /\ node.descr = "O"
                      /\ fixed_DType # NULL
                      /\ parametric(fixed_DType)
                      /\ requested_descr = NULL
              THEN /\ out_descr' = ie.out_descr
                   /\ flags' = ie.flags
                   /\ dict' = ie.dict
                   /\ err' = ie.err
                   /\ ret' = IF ie.err = NoError THEN us.max_ndim ELSE -1
              ELSE IF requested_descr = NULL
              THEN /\ dict' = Found.dict
                   /\ IF descr \in Errors
                      THEN /\ ret' = -1
                           /\ err' = descr
                           /\ UNCHANGED <<out_descr, flags>>
                      ELSE /\ out_descr' = hp.out_descr
                           /\ flags' = hp.flags
                           /\ ret' = us.max_ndim
                           /\ UNCHANGED err
              ELSE /\ dict' = Found.dict
                   /\ ret' = us.max_ndim
                   /\ UNCHANGED <<out_descr, flags, err>>
    /\ UNCHANGED <<dead, nreg, reg, lookup, nep, args, stack, cur, cur_max, warned>>

\* A sequence: lines 774-810, up to the loop over its items.
VisitSequence ==
    /\ pc = "visit"
    /\ Branch = "sequence"
    /\ LET nc == npy_new_coercion_cache(cache, cache_head, tail_ptr, cur, TRUE)
           size == Len(SeqItems(node))
           us == update_shape(curr_dims, cur_max, out_shape, 1, <<size>>, TRUE)
       IN  /\ cache' = nc.cache
           /\ cache_head' = nc.head
           /\ tail_ptr' = nc.next_ptr
           /\ out_shape' = us.out_shape
           /\ IF us.success < 0
              THEN /\ flags' = flags \cup {IS_RAGGED_ARRAY}
                   /\ ret' = us.max_ndim
                   /\ pc' = "return"
                   /\ UNCHANGED <<stack, cur, cur_max>>
              ELSE IF size = 0
              THEN /\ ret' = curr_dims + 1
                   /\ pc' = "return"
                   /\ UNCHANGED <<flags, stack, cur, cur_max>>
              ELSE /\ stack' = Append(stack, [path |-> cur, i |-> 1])
                   /\ cur' = Append(cur, 1)
                   /\ cur_max' = us.max_ndim
                   /\ pc' = "visit"
                   /\ UNCHANGED <<flags, ret>>
    /\ dict' = IF Forced THEN dict ELSE Found.dict
    /\ UNCHANGED <<dead, nreg, reg, lookup, nep, args, out_descr, err, warned>>

\* The loop over the items, lines 813-823: the value a recursive call returned
\* becomes max_dims of the loop.
top == stack[Len(stack)]
pop == SubSeq(stack, 1, Len(stack) - 1)

\* The loop if it went on to the next item after an item failed.
LoopFailVisitsSiblings ==
    /\ pc = "return"
    /\ stack # <<>>
    /\ ret < 0
    /\ IF top.i < Len(SeqItems(Sub(obj, top.path)))
       THEN /\ stack' = [stack EXCEPT ![Len(stack)].i = top.i + 1]
            /\ cur' = Append(top.path, top.i + 1)
            /\ pc' = "visit"
            /\ UNCHANGED <<cur_max, ret>>
       ELSE /\ stack' = pop
            /\ ret' = -1
            /\ UNCHANGED <<pc, cur, cur_max>>
    /\ UNCHANGED <<regvars, args, outs, cachevars, err, warned>>

LoopFail ==
    /\ pc = "return"
    /\ stack # <<>>
    /\ ret < 0
    /\ stack' = pop
    /\ ret' = -1
    /\ UNCHANGED <<regvars, args, outs, cachevars, pc, cur, cur_max, err, warned>>

\* The loop if its index were not advanced.
LoopNextSameItem ==
    /\ pc = "return"
    /\ stack # <<>>
    /\ ret >= 0
    /\ top.i < Len(SeqItems(Sub(obj, top.path)))
    /\ cur' = Append(top.path, top.i)
    /\ cur_max' = ret
    /\ pc' = "visit"
    /\ UNCHANGED <<regvars, args, outs, cachevars, stack, ret, err, warned>>

\* The loop if every item were visited with the max_dims of the caller.
LoopNextResetsMax ==
    /\ pc = "return"
    /\ stack # <<>>
    /\ ret >= 0
    /\ top.i < Len(SeqItems(Sub(obj, top.path)))
    /\ stack' = [stack EXCEPT ![Len(stack)].i = top.i + 1]
    /\ cur' = Append(top.path, top.i + 1)
    /\ cur_max' = max_dims
    /\ pc' = "visit"
    /\ UNCHANGED <<regvars, args, outs, cachevars, ret, err, warned>>

LoopNext ==
    /\ pc = "return"
    /\ stack # <<>>
    /\ ret >= 0
    /\ top.i < Len(SeqItems(Sub(obj, top.path)))
    /\ stack' = [stack EXCEPT ![Len(stack)].i = top.i + 1]
    /\ cur' = Append(top.path, top.i + 1)
    /\ cur_max' = ret
    /\ pc' = "visit"
    /\ UNCHANGED <<regvars, args, outs, cachevars, ret, err, warned>>

LoopEnd ==
    /\ pc = "return"
    /\ stack # <<>>
    /\ ret >= 0
    /\ top.i = Len(SeqItems(Sub(obj, top.path)))
    /\ stack' = pop
    /\ UNCHANGED <<regvars, args, outs, cachevars, pc, cur, cur_max, ret, err, warned>>

\* The outermost recursive call returns to PyArray_DiscoverDTypeAndShape.
RecursionReturns ==
    /\ pc = "return"
    /\ stack = <<>>
    /\ pc' = "finish"
    /\ UNCHANGED <<regvars, args, outs, cachevars, stack, cur, cur_max, ret, err, warned>>

\* ------------------------------------------- the end of the top-level call
\* The fail label, lines 989-993.
Fail(e) ==
    LET ptr == FailCleanupPtr(tail_ptr)
        freed == npy_free_coercion_cache(cache, Deref(cache, cache_head, ptr))
    IN  /\ cache' = IF ptr = 0 THEN freed ELSE [freed EXCEPT ![ptr].next = 0]
        /\ cache_head' = IF ptr = 0 THEN 0 ELSE cache_head
        /\ out_descr' = NULL
        /\ ret' = -1
        /\ err' = e
        /\ pc' = "done"
        /\ UNCHANGED tail_ptr

\* The condition without the ragged flag.
RaggedByDepthOnly == REACHED_MAXDIMS \in flags /\ ret < max_dims

\* The condition of the ragged diagnostic, lines 927-929.
Ragged ==
    \/ IS_RAGGED_ARRAY \in flags
    \/ REACHED_MAXDIMS \in flags /\ ret < max_dims

\* The descriptor returned if the requested instance were not put back at
\* lines 959-963.
FinalDescrDiscovered(d) ==
    IF d # NULL THEN d
    ELSE IF fixed_DType # NULL THEN default_descr(fixed_DType)
    ELSE DefaultDescr

\* The descriptor returned if the default of the fixed class were forgotten.
FinalDescrGlobalDefault(d) ==
    IF requested_descr # NULL THEN requested_descr
    ELSE IF d # NULL THEN d
    ELSE DefaultDescr

\* The descriptor returned, lines 959-986.
FinalDescr(d) ==
    IF requested_descr # NULL THEN requested_descr
    ELSE IF d # NULL THEN d
    ELSE IF fixed_DType # NULL THEN default_descr(fixed_DType)
    ELSE DefaultDescr

FinishFail ==
    /\ pc = "finish"
    /\ ret < 0
    /\ Fail(err)
    /\ UNCHANGED <<regvars, args, out_shape, flags, stack, cur, cur_max, warned>>

\* No class is fixed: the deprecation is given, and is an error if the warning
\* filter raises it.
FinishWarn ==
    /\ pc = "finish"
    /\ ret >= 0
    /\ Ragged
    /\ fixed_DType = NULL
    /\ warned' = warned + 1
    /\ \E raised \in BOOLEAN :
          IF raised
          THEN Fail(WarningError)
          ELSE /\ out_descr' = FinalDescr("O")
               /\ pc' = "done"
               /\ UNCHANGED <<cachevars, ret, err>>
    /\ UNCHANGED <<regvars, args, out_shape, flags, stack, cur, cur_max>>

FinishRaggedError ==
    /\ pc = "finish"
    /\ ret >= 0
    /\ Ragged
    /\ fixed_DType \notin {NULL, "Object"}
    /\ Fail(RaggedError)
    /\ UNCHANGED <<regvars, args, out_shape, flags, stack, cur, cur_max, warned>>

FinishOk ==
    /\ pc = "finish"
    /\ ret >= 0
    /\ ~Ragged \/ fixed_DType = "Object"
    /\ out_descr' = FinalDescr(out_descr)
    /\ pc' = "done"
    /\ UNCHANGED <<regvars, args, out_shape, flags, cachevars, stack, cur, cur_max,
                   ret, err, warned>>

\* _discover_array_parameters, lines 1078-1088: the caller frees the cache from
\* its head and returns.
CallerFrees ==
    /\ pc = "done"
    /\ pc' = "idle"
    /\ obj' = PyNone
    /\ max_dims' = 0
    /\ fixed_DType' = NULL
    /\ requested_descr' = NULL
    /\ out_shape' = <<>>
    /\ out_descr' = NULL
    /\ flags' = {}
    /\ cache' = <<>>
    /\ cache_head' = 0
    /\ tail_ptr' = 0
    /\ cur' = <<>>
    /\ cur_max' = 0
    /\ ret' = 0
    /\ err' = NoError
    /\ warned' = 0
    /\ UNCHANGED <<regvars, stack>>

\* ----------------------------------------------------------- specifications
Next ==
    \/ /\ pc = "idle"
       /\ \E o \in Inputs, md \in 0..MaxDimsArg, request \in Requests :
             Discover(o, md, request)
    \/ VisitScalar
    \/ VisitLeaf
    \/ VisitMapping
    \/ VisitBadSequence
    \/ VisitBadArrayLike
    \/ VisitArray
    \/ VisitSequence
    \/ LoopFail
    \/ LoopNext
    \/ LoopEnd
    \/ RecursionReturns
    \/ FinishFail
    \/ FinishWarn
    \/ FinishRaggedError
    \/ FinishOk
    \/ CallerFrees

Spec == Init /\ [][Next]_vars

NextRegistry ==
    \/ \E D \in RegDTypes, t \in RegPyTypes, u \in BOOLEAN : RegisterDType(D, t, u)
    \/ \E D \in RegDTypes : CollectDType(D)
    \/ \E t \in RegPyTypes : LookupPyType(t)

SpecRegistry == Init /\ [][NextRegistry]_vars

\* ------------------------------------------------ promotion and casting
\* common_dtype(DType1, DType2) of NEP 42.  asked lists the calls of
\* __common_dtype__ made, as <<cls, other>>, and answers what each returned: a
\* class or NotImplemented, as the classes decide.
PromotionDTypes == {"Int64", "Float64", "Str", "UserDT"}
CommonAnswers == PromotionDTypes \cup {Py_NotImplemented}
NoCommonDTypeError == "TypeError: no common dtype"

CommonDTypeCall(DType1, DType2) ==
    /\ nep.op = "none"
    /\ nep' = [NoPromotion EXCEPT !.op = "common_dtype", !.DType1 = DType1,
                                  !.DType2 = DType2, !.at = "first"]

\* common_dtype = type(dtype1).__common_dtype__(type(dtype2))
AskFirst(answer) ==
    /\ nep.op = "common_dtype"
    /\ nep.at = "first"
    /\ nep' = [nep EXCEPT !.asked = Append(@, <<nep.DType1, nep.DType2>>),
                          !.answers = Append(@, answer),
                          !.at = IF answer = Py_NotImplemented THEN "second" ELSE "return"]

\* common_dtype = type(dtype2).__common_dtype__(type(dtype1))
AskSecond(answer) ==
    /\ nep.op = "common_dtype"
    /\ nep.at = "second"
    /\ nep' = [nep EXCEPT !.asked = Append(@, <<nep.DType2, nep.DType1>>),
                          !.answers = Append(@, answer),
                          !.at = IF answer = Py_NotImplemented THEN "raise" ELSE "return"]

\* return common_dtype, if it were the first answer that is returned.
ReturnCommonFirstAnswer ==
    /\ nep.op = "common_dtype"
    /\ nep.at = "return"
    /\ nep' = [nep EXCEPT !.result = nep.answers[1], !.at = "done"]

\* return common_dtype
ReturnCommon ==
    /\ nep.op = "common_dtype"
    /\ nep.at = "return"
    /\ nep' = [nep EXCEPT !.result = nep.answers[Len(nep.answers)], !.at = "done"]

\* raise TypeError("no common dtype")
RaiseNoCommon ==
    /\ nep.op = "common_dtype"
    /\ nep.at = "raise"
    /\ nep' = [nep EXCEPT !.result = NoCommonDTypeError, !.at = "done"]

\* Resolving a cast done as a chain of steps: answers lists the safety that
\* resolve_descriptors reported for each step, result is the safety of the cast.
CastingLevels == {"equivalent", "safe", "same_kind", "unsafe"}
SafetyRank(level) ==
    CASE level = "equivalent" -> 0
      [] level = "safe" -> 1
      [] level = "same_kind" -> 2
      [] level = "unsafe" -> 3

\* The safety if it were that of the last step.
LastStepSafety(a, b) == b

LeastSafe(a, b) == IF SafetyRank(a) >= SafetyRank(b) THEN a ELSE b

ResolveCast ==
    /\ nep.op = "none"
    /\ nep' = [NoPromotion EXCEPT !.op = "cast", !.result = "equivalent",
                                  !.at = "resolving"]

ResolveStep(level) ==
    /\ nep.op = "cast"
    /\ nep.at = "resolving"
    /\ Len(nep.answers) < MaxChain
    /\ nep' = [nep EXCEPT !.answers = Append(@, level),
                          !.result = LeastSafe(@, level)]

ResolveDone ==
    /\ nep.op = "cast"
    /\ nep.at = "resolving"
    /\ nep.answers # <<>>
    /\ nep' = [nep EXCEPT !.at = "done"]

PromotionReturns ==
    /\ nep.at = "done"
    /\ nep' = NoPromotion

NextPromotion ==
    /\ \/ \E DType1, DType2 \in PromotionDTypes : CommonDTypeCall(DType1, DType2)
       \/ \E answer \in CommonAnswers : AskFirst(answer)
       \/ \E answer \in CommonAnswers : AskSecond(answer)
       \/ ReturnCommon
       \/ RaiseNoCommon
       \/ ResolveCast
       \/ \E level \in CastingLevels : ResolveStep(level)
       \/ ResolveDone
       \/ PromotionReturns
    /\ UNCHANGED <<dict, dead, nreg, reg, lookup, args, outs, cachevars, ctl>>

SpecPromotion == Init /\ [][NextPromotion]_vars

\* The call is synchronous and runs on one thread: once started, each of its
\* steps is taken.
CallStep ==
    \/ VisitScalar
    \/ VisitLeaf
    \/ VisitMapping
    \/ VisitBadSequence
    \/ VisitBadArrayLike
    \/ VisitArray
    \/ VisitSequence
    \/ LoopFail
    \/ LoopNext
    \/ LoopEnd
    \/ RecursionReturns
    \/ FinishFail
    \/ FinishWarn
    \/ FinishRaggedError
    \/ FinishOk

\* The calls whose termination is checked: every kind of node, a failure in
\* the middle, ragged inputs, and lists that contain themselves.
TerminationInputs ==
    {SelfList, List(<<SelfList>>), List(<<PyInt, SelfList>>),
     PyInt, PyNone, DictLike, BadSequence, BadArrayLike, Array(<<2>>, "i8"),
     List(<<PyInt, PyFloat>>), List(<<BadArrayLike>>), List(<<PyInt, List(<<PyInt>>)>>)}
TerminationRequests == {<<NULL, NULL>>, <<"Float64", NULL>>, <<"Str", "c">>}

NextTermination ==
    \/ /\ pc = "idle"
       /\ \E o \in TerminationInputs, md \in 0..MaxDimsArg, request \in TerminationRequests :
             Discover(o, md, request)
    \/ CallStep
    \/ CallerFrees

SpecTermination == Init /\ [][NextTermination]_vars /\ WF_vars(CallStep)

\* ======================================================================
\* Properties
\* ======================================================================
\* What the input is, read off the input alone: lists, tuples and arrays of
\* scalars, the shape of a rectangular one, and the depth of the nesting.
RECURSIVE Plain(_)
Plain(n) ==
    \/ n.kind \in {"scalar", "array"}
    \/ n.kind = "seq" /\ \A j \in 1..Len(n.items) : Plain(n.items[j])

RECURSIVE ShapeOf(_)
ShapeOf(n) ==
    IF n.kind = "array" THEN n.shape
    ELSE IF n.kind # "seq" THEN <<>>
    ELSE IF n.items = <<>> THEN <<0>>
    ELSE <<Len(n.items)>> \o ShapeOf(n.items[1])

RECURSIVE Rectangular(_)
Rectangular(n) ==
    \/ n.kind # "seq"
    \/ \A j \in 1..Len(n.items) :
          /\ Rectangular(n.items[j])
          /\ ShapeOf(n.items[j]) = ShapeOf(n.items[1])

Max(S) == CHOOSE x \in S : \A y \in S : x >= y

RECURSIVE Depth(_)
Depth(n) ==
    IF n.kind = "array" THEN Len(n.shape)
    ELSE IF n.kind # "seq" THEN 0
    ELSE 1 + Max({0} \cup {Depth(n.items[j]) : j \in 1..Len(n.items)})

\* The Python types of the scalars at the leaves of nested lists and tuples; an
\* array or any other object at a leaf is reported as "other".
RECURSIVE LeafTypes(_)
LeafTypes(n) ==
    IF n.kind = "scalar" THEN {n.pytype}
    ELSE IF n.kind = "seq"
    THEN UNION {LeafTypes(n.items[j]) : j \in 1..Len(n.items)}
    ELSE {"other"}

\* An input whose sub-branches disagree in length or shape, handed to a call
\* that reads it to its full depth and takes lists, tuples and strings as usual.
RaggedCall ==
    /\ Plain(obj)
    /\ ~Rectangular(obj)
    /\ Depth(obj) <= max_dims
    /\ requested_descr \notin {"c", "V"}

Returned == pc = "done"
Succeeded == pc = "done" /\ ret >= 0

\* ---- C1 ----
\* C1: a call of _PyArray_MapPyTypeToDType whose pytype is already mapped to
\* another class (and passes the np.generic check) returns -1 with the duplicate
\* mapping error and leaves the mapping as it was.
C1_DuplicateMappingRejected ==
    [][(/\ nreg' = nreg + 1
        /\ dict[reg'.pytype] \in DTypes \ {reg'.DType}
        /\ (reg'.userdef => IsGenericSubclass(reg'.pytype)))
       => (reg'.ret = -1 /\ reg'.err = DuplicateError /\ dict' = dict)]_vars

\* ---- C2 ----
\* C2: when PyArray_DiscoverDTypeAndShape returns -1, every cache entry made by
\* the call is released, the caller's cache head is NULL and the descriptor is
\* cleared.
C2_FailureReleasesCache ==
    (Returned /\ ret < 0)
    => /\ cache_head = 0
       /\ \A k \in 1..Len(cache) : cache[k].freed
       /\ out_descr = NULL

\* ---- C3 ----
\* C3: on a ragged input, if no other exception is raised, the call fails with
\* the ragged-input error exactly when a non-object class is fixed, and
\* otherwise succeeds with the object descriptor.
C3_RaggedPolicy ==
    (Returned /\ RaggedCall /\ err \in {NoError, RaggedError})
    => /\ (err = RaggedError) <=> (fixed_DType \notin {NULL, "Object"})
       /\ (ret < 0) <=> (err = RaggedError)
       /\ (ret >= 0) => (out_descr = "O")

\* ---- C4 ----
\* C4: with no class fixed, a call that detected raggedness and raised no
\* exception succeeds with exactly one diagnostic; no call gives more than one;
\* a call on a rectangular input read to its full depth gives none.
C4_OneDiagnostic ==
    (Returned /\ fixed_DType = NULL)
    => /\ (IS_RAGGED_ARRAY \in flags /\ err = NoError) => (ret >= 0 /\ warned = 1)
       /\ warned <= 1
       /\ (Plain(obj) /\ Rectangular(obj) /\ Depth(obj) <= max_dims) => (warned = 0)

\* ---- C5 ----
RaggedExample == List(<<List(<<PyInt, PyInt>>), List(<<PyInt>>)>>)

\* C5 as claimed: [[1,2],[3]] with no fixed class raises the ragged-input
\* error; with the object class it succeeds with shape (2,) and ndim 1.
C5_RaggedExampleRaises ==
    (Returned /\ obj = RaggedExample /\ max_dims >= 2)
    => /\ (fixed_DType = NULL) => (ret < 0 /\ err = RaggedError)
       /\ (fixed_DType = "Object") => (ret = 1 /\ out_shape[0] = 2)

\* C5 (amended): [[1,2],[3]] with no fixed class (max_dims >= 2) gives the
\* deprecation diagnostic once and, unless the warning is raised as an error,
\* succeeds with the object descriptor, ndim 1 and shape (2,); with the object
\* class fixed (max_dims >= 1) it succeeds with ndim 1 and shape (2,) and no
\* diagnostic.
C5_RaggedExampleDeprecated ==
    (Returned /\ obj = RaggedExample)
    => /\ (fixed_DType = NULL /\ max_dims >= 2)
          => /\ warned = 1
             /\ \/ ret = -1 /\ err = WarningError
                \/ /\ ret = 1
                   /\ err = NoError
                   /\ out_shape[0] = 2
                   /\ out_descr = "O"
       /\ (fixed_DType = "Object" /\ max_dims >= 1)
          => /\ ret = 1
             /\ err = NoError
             /\ out_shape[0] = 2
             /\ out_descr = "O"
             /\ warned = 0

C5_Witness ==
    /\ Returned
    /\ obj = RaggedExample
    /\ fixed_DType = NULL
    /\ max_dims = MaxDimsArg
    /\ ret = 1
    /\ warned = 1
    /\ out_descr = "O"

\* ---- C6 ----
\* C6: the visit of an array whose shape disagrees with the recorded dimensions,
\* or has more dimensions than remain, sets the ragged flag and returns a depth
\* that is not negative, so that the loop over the siblings goes on.
C6_ArrayMismatchNeverFails ==
    [][(/\ pc = "visit"
        /\ Branch = "array"
        /\ update_shape(curr_dims, cur_max, out_shape,
                        Len(node.shape), node.shape, FALSE).success < 0)
       => (IS_RAGGED_ARRAY \in flags' /\ ret' >= 0 /\ pc' = "return")]_vars

\* ---- C7 ----
\* The instance the class registered for a Python scalar type discovers from a
\* scalar of the model (the strings at the leaves have two characters).
InstanceOf(t) ==
    CASE t = "int" -> "i8"
      [] t = "float" -> "f8"
      [] t = "datetime64" -> "M8"
      [] t = "str" -> "U2"

UniformCall ==
    /\ obj.kind = "seq"
    /\ Plain(obj)
    /\ Rectangular(obj)
    /\ Depth(obj) <= max_dims
    /\ fixed_DType = NULL
    /\ requested_descr = NULL
    /\ \E t \in {"int", "float", "datetime64", "str"} : LeafTypes(obj) = {t}

\* C7: for a rectangular nesting of lists of depth k <= max_dims whose leaves
\* are scalars of one registered type, with no class and no instance fixed, the
\* call returns ndim = k, the nesting lengths as shape and the instance of the
\* type's class, sets no ragged flag and gives no diagnostic.
C7_RectangularUniform ==
    (Returned /\ UniformCall)
    => /\ ret = Depth(obj)
       /\ \A j \in 1..Depth(obj) : out_shape[j - 1] = ShapeOf(obj)[j]
       /\ \A t \in LeafTypes(obj) : out_descr = InstanceOf(t)
       /\ IS_RAGGED_ARRAY \notin flags
       /\ warned = 0
       /\ err = NoError

C7_Witness ==
    /\ Returned
    /\ obj = List(<<List(<<PyInt, PyInt>>), List(<<PyInt, PyInt>>)>>)
    /\ max_dims = MaxDimsArg
    /\ fixed_DType = NULL
    /\ ret = 2
    /\ out_shape[0] = 2
    /\ out_shape[1] = 2
    /\ out_descr = "i8"

\* ---- C8 ----
\* C8: when an instance is fixed, the promotion-failed flag is never set, and a
\* call that succeeds returns the instance of the caller.
C8_FixedInstanceKept ==
    (requested_descr # NULL)
    => /\ PROMOTION_FAILED \notin flags
       /\ Succeeded => out_descr = requested_descr

C8_Witness ==
    /\ Succeeded
    /\ requested_descr = "f8"
    /\ obj = List(<<Datetime64, PyInt>>)
    /\ ret = 1
    /\ out_descr = "f8"

\* ---- C9 ----
EmptySequenceCall ==
    /\ obj.kind = "seq"
    /\ obj.items = <<>>
    /\ max_dims >= 1
    /\ ~(obj.pytype = "tuple" /\ requested_descr = "V")
    /\ ~(fixed_DType # NULL /\ is_known_scalar(fixed_DType, obj))

\* C9: an empty list (or an empty tuple that is not read as an element) at
\* depth 0, with max_dims >= 1, gives ndim 1 and shape [0]; the descriptor is the
\* requested instance, else the default instance of the fixed class, else the
\* global default.
C9_EmptySequence ==
    (Returned /\ EmptySequenceCall)
    => /\ ret = 1
       /\ out_shape[0] = 0
       /\ err = NoError
       /\ out_descr = IF requested_descr # NULL THEN requested_descr
                      ELSE IF fixed_DType # NULL THEN default_descr(fixed_DType)
                      ELSE "f8"

C9_Witness ==
    /\ Returned
    /\ obj = List(<<>>)
    /\ max_dims = 1
    /\ fixed_DType = "Str"
    /\ requested_descr = NULL
    /\ ret = 1
    /\ out_shape[0] = 0
    /\ out_descr = "U1"

C11_CallReturns == (pc = "visit") ~> (pc = "done")

C11_Witness ==
    /\ Returned
    /\ obj = SelfList
    /\ max_dims = MaxDimsArg
    /\ ret = MaxDimsArg
    /\ REACHED_MAXDIMS \in flags

\* ---- C12 ----
\* C12: the step in which a promotion fails does not fail: it leaves the object
\* descriptor as running descriptor and sets the promotion-failed flag, which
\* stays set until the call returns; the ndim and shape of a call in which a
\* promotion failed are those of the nesting, as for leaves that promote.
C12_PromotionFailureGoesOn ==
    /\ [][(pc \notin {"idle", "done"})
          => /\ (PROMOTION_FAILED \in flags) => (PROMOTION_FAILED \in flags')
             /\ (PROMOTION_FAILED \notin flags /\ PROMOTION_FAILED \in flags')
                => (out_descr' = "O" /\ ret' >= 0 /\ err' = NoError /\ pc' = "return")]_vars
    /\ [](/\ Succeeded
          /\ PROMOTION_FAILED \in flags
          /\ Plain(obj)
          /\ Rectangular(obj)
          /\ Depth(obj) <= max_dims
          => /\ ret = Depth(obj)
             /\ \A j \in 1..Depth(obj) : out_shape[j - 1] = ShapeOf(obj)[j]
             /\ out_descr = "O")

C12_Witness ==
    /\ Succeeded
    /\ obj = List(<<Datetime64, PyInt>>)
    /\ fixed_DType = NULL
    /\ PROMOTION_FAILED \in flags
    /\ ret = 1
    /\ out_shape[0] = 2
    /\ out_descr = "O"

\* ---- C13 ----
\* The cache as the caller walks it: from the head along next.
RECURSIVE Linked(_, _)
Linked(c, k) ==
    IF k = 0 THEN <<>>
    ELSE <<[path |-> c[k].converted_obj, sequence |-> c[k].sequence]>> \o Linked(c, c[k].next)

CacheList == Linked(cache, cache_head)

\* p comes before q when the nodes are visited parent first, items in order.
RECURSIVE Before(_, _)
Before(p, q) ==
    IF p = <<>> THEN q # <<>>
    ELSE IF q = <<>> THEN FALSE
    ELSE IF Head(p) = Head(q) THEN Before(Tail(p), Tail(q))
    ELSE Head(p) < Head(q)

Discovering == pc \in {"visit", "return", "finish"}

\* C13: while the discovery runs, the only change of the cache is that the
\* visit of a node handled as an array or as a sequence appends one entry for
\* that node at the end; so the entries are in pre-order, each node has at most
\* one, and the entry of a sequence is there before any of its items is visited.
C13_CachePreOrder ==
    /\ [][(Discovering /\ ~(pc' = "done" /\ ret' < 0))
          => IF pc = "visit" /\ Branch \in {"array", "sequence"}
             THEN CacheList' = Append(CacheList, [path |-> cur, sequence |-> (Branch = "sequence")])
             ELSE CacheList' = CacheList]_vars
    /\ [](Discovering
          => /\ Len(CacheList) = Len(cache)
             /\ \A i, j \in 1..Len(CacheList) :
                   (i < j) => Before(CacheList[i].path, CacheList[j].path)
             /\ (pc = "visit" /\ cur # <<>>)
                => \E k \in 1..Len(CacheList) :
                      /\ CacheList[k].path = SubSeq(cur, 1, Len(cur) - 1)
                      /\ CacheList[k].sequence)

C13_Witness ==
    /\ Succeeded
    /\ obj = List(<<Array(<<2>>, "i8"), List(<<PyInt, PyInt>>)>>)
    /\ ret = 2
    /\ CacheList = <<[path |-> <<>>, sequence |-> TRUE],
                     [path |-> <<1>>, sequence |-> FALSE],
                     [path |-> <<2>>, sequence |-> TRUE]>>

\* ---- C14 ----
\* A step that is a call of discover_dtype_from_pytype.
LookupStep ==
    /\ dead' = dead
    /\ nreg' = nreg
    /\ <<dict, lookup>>' # <<dict, lookup>>

\* C14: a lookup of a scalar type whose registered class has been collected
\* removes the entry of that type from the registry and does not return a class.
C14_StaleEntryRemoved ==
    [][(LookupStep /\ dict[lookup'.pytype] \in dead)
       => /\ dict'[lookup'.pytype] = Absent
          /\ lookup'.ret \notin DTypes
          /\ \A t \in PyObjects \ {lookup'.pytype} : dict'[t] = dict[t]]_vars

C14_Witness ==
    /\ "UserDT" \in dead
    /\ reg.DType = "UserDT"
    /\ reg.pytype = "userscalar"
    /\ reg.ret = 0
    /\ lookup.pytype = "userscalar"
    /\ lookup.ret = Py_None
    /\ dict["userscalar"] = Absent

\* ---- C15 ----
\* C15: a call of _PyArray_MapPyTypeToDType with userdef true and a pytype that
\* is no subclass of np.generic returns -1 with the error of lines 143-146 and
\* leaves the registry as it was.
C15_NotGenericRejected ==
    [][(nreg' = nreg + 1 /\ reg'.userdef /\ ~IsGenericSubclass(reg'.pytype))
       => (reg'.ret = -1 /\ reg'.err = NotGenericError /\ dict' = dict)]_vars

C15_Witness ==
    /\ nreg >= 1
    /\ reg.userdef
    /\ reg.DType = "Unit"
    /\ reg.pytype = "quantity"
    /\ reg.ret = -1
    /\ reg.err = NotGenericError
    /\ dict["quantity"] = Absent

\* ---- C16 ----
\* C16: a call that succeeds returns 0 <= ndim <= max_dims, and every entry of
\* the shape below ndim is a size, not the marker -1 of an unset dimension.
C16_ShapeFilled ==
    Succeeded
    => /\ 0 <= ret
       /\ ret <= max_dims
       /\ \A j \in 0..(ret - 1) : out_shape[j] >= 0

C16_Witness ==
    /\ Succeeded
    /\ obj = List(<<Array(<<1, 2>>, "f8"), Array(<<1, 2>>, "f8")>>)
    /\ max_dims = MaxDimsArg
    /\ ret = 3
    /\ out_shape[0] = 2
    /\ out_shape[1] = 1
    /\ out_shape[2] = 2

\* ---- C17 ----
\* C17: common_dtype(A, B) asks A.__common_dtype__(B) first and asks
\* B.__common_dtype__(A) only if the first answer is NotImplemented; it raises
\* the no-common-dtype error exactly when both answers are NotImplemented, and
\* otherwise returns the first answer that is not NotImplemented.
C17_CommonDTypeOrder ==
    (nep.op = "common_dtype")
    => /\ Len(nep.asked) <= 2
       /\ (Len(nep.asked) >= 1) => (nep.asked[1] = <<nep.DType1, nep.DType2>>)
       /\ (Len(nep.asked) = 2)
          => /\ nep.asked[2] = <<nep.DType2, nep.DType1>>
             /\ nep.answers[1] = Py_NotImplemented
       /\ (nep.at = "done")
          => /\ Len(nep.asked) >= 1
             /\ (nep.answers[1] # Py_NotImplemented)
                => (Len(nep.asked) = 1 /\ nep.result = nep.answers[1])
             /\ (nep.answers[1] = Py_NotImplemented)
                => /\ Len(nep.asked) = 2
                   /\ (nep.answers[2] # Py_NotImplemented) => (nep.result = nep.answers[2])
                   /\ (nep.answers[2] = Py_NotImplemented) <=> (nep.result = NoCommonDTypeError)
             /\ (nep.result = NoCommonDTypeError)
                => (\A k \in 1..Len(nep.answers) : nep.answers[k] = Py_NotImplemented)

C17_Witness ==
    /\ nep.op = "common_dtype"
    /\ nep.at = "done"
    /\ nep.DType1 = "Int64"
    /\ nep.DType2 = "Str"
    /\ nep.asked = <<<<"Int64", "Str">>, <<"Str", "Int64">>>>
    /\ nep.answers = <<Py_NotImplemented, "Str">>
    /\ nep.result = "Str"

\* ---- C18 ----
\* C18: the safety reported for a cast resolved as a chain of steps is the
\* least safe of the levels of its steps: it is one of them and none of them is
\* less safe; two safe steps give a cast that is reported safe, never better.
C18_ChainSafety ==
    (nep.op = "cast" /\ nep.answers # <<>>)
    => /\ \A k \in 1..Len(nep.answers) : SafetyRank(nep.result) >= SafetyRank(nep.answers[k])
       /\ \E k \in 1..Len(nep.answers) : nep.result = nep.answers[k]
       /\ (nep.answers = <<"safe", "safe">>) => (nep.result = "safe")

C18_Witness ==
    /\ nep.op = "cast"
    /\ nep.at = "done"
    /\ nep.answers = <<"safe", "unsafe", "safe">>
    /\ nep.result = "unsafe"

\* ---- C19 ----
\* The descriptor of a leaf when no class is fixed: that of an array, the
\* instance the registered class discovers for a scalar, the object descriptor
\* for an object of no registered type.
LeafDescr(n) ==
    IF n.kind = "array" THEN n.descr
    ELSE CASE n.pytype = "int" -> "i8"
           [] n.pytype \in {"float", "floatsub"} -> "f8"
           [] n.pytype = "datetime64" -> "M8"
           [] n.pytype = "str" -> (IF n.size <= 1 THEN "U1" ELSE "U2")
           [] OTHER -> "O"

\* The descriptors of the leaves in the order of the visit.
RECURSIVE LeafDescrs(_)
RECURSIVE LeafDescrsFrom(_, _)
LeafDescrs(n) ==
    IF n.kind = "seq" THEN LeafDescrsFrom(n.items, 1) ELSE <<LeafDescr(n)>>
LeafDescrsFrom(items, k) ==
    IF k > Len(items) THEN <<>>
    ELSE LeafDescrs(items[k]) \o LeafDescrsFrom(items, k + 1)

\* promote(...promote(d1, d2)..., dn), a failed promotion giving the object
\* descriptor (C12).
RECURSIVE FoldPromote(_, _, _)
FoldPromote(acc, ds, k) ==
    IF k > Len(ds) THEN acc
    ELSE LET p == PyArray_PromoteTypes(acc, ds[k])
         IN  FoldPromote(IF p = NULL THEN "O" ELSE p, ds, k + 1)

FoldCall ==
    /\ Plain(obj)
    /\ Rectangular(obj)
    /\ Depth(obj) <= max_dims
    /\ fixed_DType = NULL
    /\ requested_descr = NULL

\* C19: with no class and no instance fixed, a call on a rectangular input read
\* to its full depth returns the default descriptor if there is no leaf, the
\* descriptor of the leaf if there is one, and otherwise the promotion of the
\* leaves' descriptors folded from the left in the order of the visit.
C19_LeftFold ==
    (Returned /\ FoldCall)
    => /\ ret >= 0
       /\ LET ds == LeafDescrs(obj) IN
             out_descr = IF ds = <<>> THEN "f8"
                         ELSE IF Len(ds) = 1 THEN ds[1]
                         ELSE FoldPromote(ds[1], ds, 2)

C19_Witness ==
    /\ Succeeded
    /\ obj = List(<<PyInt, PyFloat>>)
    /\ fixed_DType = NULL
    /\ requested_descr = NULL
    /\ max_dims = MaxDimsArg
    /\ ret = 1
    /\ out_shape[0] = 2
    /\ out_descr = "f8"

\* ---- C20 ----
\* The node being visited resolves to a class, and the class answers
\* NotImplemented when asked for the instance of the node.
ClassCannotDiscover ==
    /\ pc = "visit"
    /\ Branch = "scalar"
    /\ Found.ret \in DTypes
    /\ discover_descr_from_pyobject(Found.ret, node) = Py_NotImplemented

\* C20 as claimed: when the class a node resolves to answers NotImplemented,
\* the visit does not fail and the leaf gets the default instance of the class.
C20_FallsBackToDefault ==
    [][ClassCannotDiscover
       => (ret' >= 0 /\ err' = NoError /\ out_descr' # NULL)]_vars

\* C20 (amended): when the class a node resolves to answers NotImplemented,
\* and neither a fixed instance nor another fixed class has given the instance
\* first, the visit fails with the RuntimeError of lines 399-403 and 424-433
\* and the running descriptor is left as it was: there is no fall-back to the
\* default instance.
C20_NotImplementedIsAnError ==
    [][(/\ ClassCannotDiscover
        /\ requested_descr = NULL
        /\ \/ fixed_DType \in {NULL, Found.ret}
           \/ discover_descr_from_pyobject(fixed_DType, node) = Py_NotImplemented)
       => /\ ret' = -1
          /\ err' = BadDTypeError
          /\ out_descr' = out_descr
          /\ pc' = "return"]_vars

C20_Witness ==
    /\ Returned
    /\ obj = List(<<BareQuantity>>)
    /\ fixed_DType = "Unit"
    /\ requested_descr = NULL
    /\ curr_dims = 1
    /\ ret = -1
    /\ err = BadDTypeError

\* ---- C21 ----
\* The fixed class takes the node for one of its scalars: its exact type is the
\* scalar type of the class, or is_known_scalar accepts it.
FixedAccepts ==
    /\ fixed_DType # NULL
    /\ \/ node.pytype = scalar_type(fixed_DType)
       \/ is_known_scalar(fixed_DType, node)

\* The step handles the node as a scalar of the class D (NULL: of no class): it
\* returns what handle_scalar gives and records nothing in the cache.
HandledAsScalarOf(D) ==
    LET hs == handle_scalar(node, curr_dims, cur_max, out_descr, out_shape,
                            fixed_DType, requested_descr, flags, D)
    IN  /\ pc' = "return"
        /\ ret' = hs.ret
        /\ err' = hs.err
        /\ out_descr' = hs.out_descr
        /\ out_shape' = hs.out_shape
        /\ cache' = cache
        /\ stack' = stack

\* The step handles the node as an array or a sequence, or fails to read it as
\* one: it makes a cache entry or raises the error of the protocol.
HandledAsContainer ==
    \/ Len(cache') = Len(cache) + 1
    \/ err' \in {ArrayLikeError, SequenceError}

\* C21 as claimed: every node the fixed class accepts is handled as a scalar of
\* the fixed class.
C21_FixedClassAlwaysFirst ==
    [][(pc = "visit" /\ FixedAccepts) => HandledAsScalarOf(fixed_DType)]_vars

\* C21 (amended): unless the character dtype forces a string to be read as a
\* sequence, a node the fixed class accepts is handled as a scalar of the fixed
\* class, also when the registry has None for its type; a node it does not
\* accept is handled as the registry says (a scalar of the registered class;
\* for None an array or a sequence, if the depth allows and the tuple is not an
\* element of a structured dtype), and a node of an unregistered type as the
\* legacy discovery says.
C21_FixedClassFirst ==
    [][(pc = "visit" /\ ~Forced)
       => LET registered == dict[node.pytype] IN
          /\ FixedAccepts => HandledAsScalarOf(fixed_DType)
          /\ (~FixedAccepts /\ registered \in DTypes)
             => HandledAsScalarOf(registered)
          /\ (/\ ~FixedAccepts
              /\ registered = Py_None
              /\ curr_dims < cur_max
              /\ ~(DISCOVER_TUPLES_AS_ELEMENTS \in flags /\ node.pytype = "tuple"))
             => HandledAsContainer
          /\ (~FixedAccepts /\ registered = Absent /\ legacy_descr(node) # NULL)
             => HandledAsScalarOf(NPY_DTYPE(legacy_descr(node)))]_vars

\* A tuple, which the registry has as no scalar, was handled as a scalar of the
\* fixed class Unit.
C21_Witness ==
    /\ pc = "return"
    /\ fixed_DType = "Unit"
    /\ node = Tuple(<<PyInt>>)
    /\ dict["tuple"] = Py_None
    /\ curr_dims = 1
    /\ cur_max >= 2
    /\ out_descr = "unit"
    /\ cache_head # 0
    /\ Len(cache) = 1

\* ---- C22 ----
\* C22: from the start of a call to its return, out_shape keeps its length and
\* an entry that holds a size keeps it; an entry changes only from -1 to a size.
C22_ShapeEntryWrittenOnce ==
    [][(pc # "idle" /\ pc' # "idle")
       => /\ DOMAIN out_shape' = DOMAIN out_shape
          /\ \A j \in DOMAIN out_shape :
                \/ out_shape'[j] = out_shape[j]
                \/ out_shape[j] = -1 /\ out_shape'[j] >= 0]_vars

\* The second list of [[1, 2], [3]] was compared with the recorded length 2
\* and did not replace it.
C22_Witness ==
    /\ pc = "return"
    /\ obj = RaggedExample
    /\ max_dims = 2
    /\ cur = <<2>>
    /\ IS_RAGGED_ARRAY \in flags
    /\ out_shape[0] = 2
    /\ out_shape[1] = 2

\* ---- C23 ----
\* C23: once the visit of an item of a sequence has returned an error (a
\* negative value), no step of the call visits another node or adds a cache
\* entry: each enclosing sequence returns -1 in turn with the exception as it
\* is, and the top-level call ends with -1.
C23_ErrorStopsTraversal ==
    [][(pc \in {"return", "finish"} /\ ret < 0)
       => /\ pc' \in {"return", "finish", "done"}
          /\ ret' = -1
          /\ Len(stack') <= Len(stack)
          /\ Len(cache') = Len(cache)
          /\ cur' = cur
          /\ (pc' # "done") => (err' = err)
          /\ (pc = "finish") => (pc' = "done" /\ err' = err)]_vars

\* [[bad], [1]]: the array-like in the first list raises, the second list is
\* not visited and gets no cache entry, and the call fails.
C23_Witness ==
    /\ Returned
    /\ obj = List(<<List(<<BadArrayLike>>), List(<<PyInt>>)>>)
    /\ max_dims = 2
    /\ fixed_DType = NULL
    /\ ret = -1
    /\ err = ArrayLikeError
    /\ cur = <<1, 1>>
    /\ Len(cache) = 2

\* ---- C24 ----
\* The shape the node being visited hands to update_shape, and what
\* update_shape answers: a scalar or a leaf has no dimension, an array its
\* shape, a sequence its length.
NodeShape ==
    CASE Branch = "array" -> node.shape
      [] Branch = "sequence" -> <<Len(SeqItems(node))>>
      [] OTHER -> <<>>

NodeUpdate ==
    update_shape(curr_dims, cur_max, out_shape, Len(NodeShape), NodeShape,
                 Branch = "sequence")

\* The visit of one node returns a depth.
NodeReturns == pc = "visit" /\ pc' = "return" /\ ret' >= 0

\* C24 as claimed: an item of a sequence that agrees with the shape recorded so
\* far returns the maximum depth it was given, so that the next sibling gets
\* the same.
C24_ShrinksOnlyOnMismatch ==
    [][(NodeReturns /\ stack # <<>> /\ NodeUpdate.success >= 0)
       => (ret' = cur_max)]_vars

\* C24 (amended): the depth a node returns is never more than the maximum it
\* was given and is what the next sibling gets.  Without any mismatch a scalar,
\* a leaf or an array returns the depth at which it ends, which is below the
\* maximum when the branch is the first to end there, and an empty sequence
\* returns its depth + 1; a sequence hands its own maximum to its first item
\* and returns what its last item returned.
C24_ShrinksToBranchDepth ==
    [][/\ NodeReturns
          => /\ ret' <= cur_max
             /\ (NodeUpdate.success >= 0 /\ Branch # "sequence")
                => (ret' = curr_dims + Len(NodeShape))
             /\ (NodeUpdate.success >= 0 /\ Branch = "sequence")
                => (NodeShape = <<0>> /\ ret' = curr_dims + 1)
       /\ (pc = "visit" /\ pc' = "visit")
          => (cur_max' = cur_max /\ NodeUpdate.success >= 0)
       /\ (pc = "return" /\ pc' = "visit") => (cur_max' = ret)
       /\ (pc = "return" /\ pc' = "return" /\ ret >= 0) => (ret' = ret)]_vars

\* [[1], [2]] read with max_dims 4: the first 1 agrees with the shape recorded
\* so far and ends at depth 2, and the second list is visited with the maximum 2.
C24_Witness ==
    /\ pc = "visit"
    /\ obj = List(<<List(<<PyInt>>), List(<<PyInt>>)>>)
    /\ max_dims = 4
    /\ fixed_DType = NULL
    /\ cur = <<2>>
    /\ cur_max = 2
    /\ IS_RAGGED_ARRAY \notin flags

\* ---- C25 ----
\* The array being visited is an object array whose elements are inspected: a
\* parametric class is fixed, no instance is, and the shape agrees.
ElementsInspected ==
    /\ pc = "visit"
    /\ Branch = "array"
    /\ node.descr = "O"
    /\ fixed_DType # NULL
    /\ parametric(fixed_DType)
    /\ requested_descr = NULL
    /\ NodeUpdate.success >= 0

\* The running descriptor, the flags and the exception after the elements from
\* the k-th on are handled one by one as leaf scalars under the fixed class.
RECURSIVE AsLeafScalars(_, _, _, _)
AsLeafScalars(elems, k, outd, fl) ==
    IF k > Len(elems) THEN [out_descr |-> outd, flags |-> fl, err |-> NoError]
    ELSE LET f == discover_dtype_from_pyobject(elems[k], fixed_DType, dict, dead)
             DType == IF f.ret = Py_None THEN NULL ELSE f.ret
             hs == handle_scalar(elems[k], 0, 0, outd, <<>>, fixed_DType, NULL, fl, DType)
         IN  IF hs.ret < 0
             THEN [out_descr |-> hs.out_descr, flags |-> hs.flags, err |-> hs.err]
             ELSE AsLeafScalars(elems, k + 1, hs.out_descr, hs.flags)

\* C25: the visit of an object array under a parametric fixed class with no
\* fixed instance makes one cache entry, goes into no element, records the shape
\* of the array only, and leaves the running descriptor and the exception that
\* handling each element as a leaf scalar under the fixed class gives.
C25_ElementsAsLeafScalars ==
    [][ElementsInspected
       => LET leaves == AsLeafScalars(node.items, 1, out_descr, flags) IN
          /\ pc' = "return"
          /\ stack' = stack
          /\ Len(cache') = Len(cache) + 1
          /\ out_shape' = NodeUpdate.out_shape
          /\ err' = leaves.err
          /\ out_descr' = leaves.out_descr
          /\ (ret' >= 0) <=> (leaves.err = NoError)]_vars

\* ---- C26 ----
\* C26: with no class fixed, a call that froze a sequence as a leaf at the
\* depth limit, and did not fail before its end, gives the deprecation
\* diagnostic.
C26_LimitHitDiagnosed ==
    (/\ Returned
     /\ fixed_DType = NULL
     /\ REACHED_MAXDIMS \in flags
     /\ (ret >= 0 \/ err = WarningError))
    => (warned = 1)

\* ---- C27 ----
\* The dimensions of the array being visited, among those that fit below the
\* maximum depth, that disagree with a size already recorded.
ArrayMismatches ==
    {i \in 0..(Min({Len(node.shape), cur_max - curr_dims}) - 1) :
        /\ out_shape[curr_dims + i] # -1
        /\ node.shape[i + 1] # out_shape[curr_dims + i]}

\* C27: the visit of an array at depth d whose first disagreement with the
\* recorded shape is at its i-th dimension returns the usable depth d + i, and
\* so never less than d.
C27_MismatchKeepsAgreedDims ==
    [][(pc = "visit" /\ Branch = "array" /\ ArrayMismatches # {})
       => /\ ret' = curr_dims + Min(ArrayMismatches)
          /\ ret' >= curr_dims]_vars

\* ---- C28 ----
\* C28: a call for which a class is fixed, and that succeeds, returns an
\* instance of the fixed class.
C28_InstanceOfFixedClass ==
    (Succeeded /\ fixed_DType # NULL) => (NPY_DTYPE(out_descr) = fixed_DType)

\* ---- C29 ----
\* C29: a lookup of a type that is not registered, or whose registered class
\* has been collected, answers NULL (an unknown type, left to the legacy
\* discovery), the first time after the collection as every later time.
C29_CollectedIsUnknown ==
    [][(/\ LookupStep
        /\ \/ dict[lookup'.pytype] = Absent
           \/ dict[lookup'.pytype] \in dead)
       => (lookup'.ret = NULL)]_vars

\* ---- C30 ----
\* The maximum usable depth of the call: max_dims of the recursive call that is
\* about to run, or the value the last one returned.
UsableDepth == IF pc = "visit" THEN cur_max ELSE ret

\* From the first visit to the return of the outermost recursive call the
\* usable depth is at most max_dims and no step increases it; a visit returns
\* -1 or at most the max_dims it was given.
DepthNeverIncreases ==
    /\ []((pc \in {"visit", "return", "finish"}) => (UsableDepth <= max_dims))
    /\ [][(pc \in {"visit", "return"} /\ pc' \in {"visit", "return", "finish"})
          => (UsableDepth' <= UsableDepth)]_vars
    /\ [][(pc = "visit" /\ pc' = "return") => (ret' = -1 \/ ret' <= cur_max)]_vars

\* The node being visited is read as a sequence and has no item.
EmptySequenceVisited ==
    /\ pc = "visit"
    /\ Branch = "sequence"
    /\ SeqItems(node) = <<>>

\* C30 as claimed: the usable depth never increases, and the visit of an empty
\* sequence at depth d returns d + 1.
C30_EmptyAlwaysNextDepth ==
    /\ DepthNeverIncreases
    /\ [][EmptySequenceVisited => (ret' = curr_dims + 1)]_vars

\* C30 (amended): the usable depth never increases, and the visit of an empty
\* sequence at depth d returns d + 1 if no length, or the length 0, is recorded
\* for that depth; if another length is recorded the sequence is ragged and
\* the visit returns d.
C30_DepthMonotone ==
    /\ DepthNeverIncreases
    /\ [][EmptySequenceVisited
          => IF out_shape[curr_dims] \in {-1, 0}
             THEN ret' = curr_dims + 1 /\ flags' = flags
             ELSE ret' = curr_dims /\ IS_RAGGED_ARRAY \in flags']_vars

\* [[]] read with max_dims 4: the empty list at depth 1 returned 2, which is
\* less than the 4 it was given.
C30_Witness ==
    /\ pc = "return"
    /\ obj = List(<<List(<<>>)>>)
    /\ max_dims = 4
    /\ cur = <<1>>
    /\ ret = 2
    /\ out_shape[1] = 0

====
